---- MODULE Spec2Model ----
(***************************************************************************)
(* A model of the water-meter map editor (app.js and its earlier           *)
(* revisions part_000 / part_001).  The repository holds several revisions *)
(* of one script; the variable rev says which one a behaviour runs:        *)
(*   "p0"  src/unnamed/part_000 (part_001 is the same logic, no debugLog)  *)
(*   "r1"  src/app.js 1-395     (paginated loader with the empty-page test)*)
(*   "r2"  src/app.js 398-871   (clone-based save, panel closes on success)*)
(*   "r3"  src/app.js 873-1385  (save button disabled while saving)        *)
(*   "r4"  src/app.js 1387-2068 (modal editor, no in-memory collection)    *)
(*                                                                         *)
(* Text is a tuple of one-character strings, so that trim() is computed.   *)
(* JavaScript null is the tuple Null, which is not a text.                 *)
(***************************************************************************)
EXTENDS Integers, Sequences, FiniteSets, TLC

VARIABLES
    rev,                \* the revision of the script that is running
    store,              \* Remote Feature Store: sequence of records, in store order
    pc,                 \* init(): "initMap", "load", "ready" or "failed"
    batchSize,          \* loadAllFeatures: const batchSize
    maxRecordCount,     \* the store's own per-request result limit
    offset,             \* loadAllFeatures: let offset
    features,           \* loadAllFeatures: let features (the accumulator)
    requests,           \* the query.start of every page request issued, in order
    allFeaturesDefined, \* whether window.allFeatures has been assigned
    allFeatures,        \* window.allFeatures (meaningful once assigned)
    renderer,           \* featureLayer.renderer
    rendererUpdated,    \* whether updateRenderer / updateRendererWithData has run
    stats,              \* the totalMeters / updatedMeters counters shown
    searchReady,        \* initSearch() has run
    listenersReady,     \* initEventListeners() has run
    loadingShown,       \* the loading indicator is visible
    selectedFeature,    \* let selectedFeature
    highlightGraphic,   \* let highlightGraphic: 0 (null) or the OBJECTID it marks
    viewGraphics,       \* view.graphics: the OBJECTIDs marked on the map
    panelVisible,       \* the details panel / edit modal is open
    formInput,          \* the Account Update field of the open panel (<<>> when closed)
    saveBtnDisabled,    \* r3: the current save button is disabled
    saves,              \* applyEdits requests in flight, oldest first
    saveCount,          \* how many times save was submitted so far
    searchInput,        \* the text in the search box
    searchTimeout,      \* let searchTimeout: 0 (undefined) or the last timer's id
    timers,             \* the timeouts that are scheduled and have not fired
    searchResults,      \* the search result list: hidden or not, and its content
    queries,            \* r4: queryFeatures requests in flight, oldest first
    latest,             \* r4: how many requests were issued, and the last
                        \* query searched and the last record chosen
    ev                  \* the handler that ran last, and what it showed

vars == <<rev, store, pc, batchSize, maxRecordCount, offset, features, requests,
          allFeaturesDefined, allFeatures, renderer, rendererUpdated, stats,
          searchReady, listenersReady, loadingShown, selectedFeature,
          highlightGraphic, viewGraphics, panelVisible, formInput,
          saveBtnDisabled, saves, saveCount, searchInput, searchTimeout,
          timers, searchResults, queries, latest, ev>>

loadVars == <<pc, batchSize, maxRecordCount, offset, features, requests>>
uiVars == <<selectedFeature, highlightGraphic, viewGraphics, panelVisible,
            formInput, saveBtnDisabled, saves, saveCount>>

remoteVars == <<queries, latest>>

searchVars == <<searchInput, searchTimeout, timers, searchResults, queries,
                latest>>

(***************************************************************************)
(* Bounds of the model.                                                    *)
(***************************************************************************)
MaxRecords == 6         \* SpecLoad: the store holds 0..MaxRecords records
MaxBatch == 3           \* SpecLoad: page sizes 1..MaxBatch
MaxServerLimit == 4     \* SpecLoad: server limits 1..MaxServerLimit
NumFeatures == 2        \* SpecEdit: the collection holds NumFeatures records
MaxSaves == 2           \* SpecEdit: save is submitted at most MaxSaves times
MaxColl == 3            \* SpecClassify: the collection holds 0..MaxColl records
MaxSearchColl == 11     \* SpecSearch: the collection holds 0..MaxSearchColl records
MaxTimers == 2          \* SpecSearch: setTimeout is called at most MaxTimers times
MaxRemoteColl == 2      \* SpecRemote: the layer holds 0..MaxRemoteColl records
MaxQueries == 2         \* SpecRemote: at most MaxQueries requests are issued

(***************************************************************************)
(* Text and JavaScript values.                                             *)
(***************************************************************************)
Null == <<"null">>

\* what the user types into the Account Update field: a blank (which clears
\* the field) or a value with blanks around it
InputTexts == {<<" ">>, <<" ", "a", " ">>}

RECURSIVE TrimStart(_)
TrimStart(s) == IF s # <<>> /\ Head(s) = " " THEN TrimStart(Tail(s)) ELSE s

RECURSIVE TrimEnd(_)
TrimEnd(s) ==
    IF s # <<>> /\ s[Len(s)] = " " THEN TrimEnd(SubSeq(s, 1, Len(s) - 1)) ELSE s

\* String.prototype.trim
Trim(s) == TrimEnd(TrimStart(s))

\* JavaScript truthiness of a text-or-null value: null and "" are falsy
Truthy(v) == v # Null /\ v # <<>>

\* attrs[...] || '' as used to fill the input field
OrEmpty(v) == IF Truthy(v) THEN v ELSE <<>>

Min(a, b) == IF a < b THEN a ELSE b

Feature(id, au) == [OBJECTID |-> id, Account_Update |-> au]

(***************************************************************************)
(* The Classifier / Renderer Builder.                                      *)
(***************************************************************************)
needsUpdate == "#2247fe"
updated == "#80c940"

Info(v, c) == [value |-> v, color |-> c]

\* the fixed leading entries of uniqueValueInfos
BaseInfos(r) ==
    IF r \in {"p0", "r4"}
    THEN <<Info(Null, needsUpdate), Info(<<>>, needsUpdate)>>
    ELSE <<Info(Null, needsUpdate), Info(<<>>, needsUpdate),
           Info(<<" ">>, needsUpdate)>>

\* a faulty variant of IsUpdatedValue that forgets trim()
IsUpdatedValueNoTrim(v) == Truthy(v)

\* value && value.toString().trim() !== ""
IsUpdatedValue(v) == Truthy(v) /\ Trim(v) # <<>>

\* new Set(); features.forEach(... updatedValues.add(value)): distinct values
\* in first-insertion order
RECURSIVE UpdatedValues(_)
UpdatedValues(fs) ==
    IF fs = <<>> THEN <<>>
    ELSE LET init == UpdatedValues(SubSeq(fs, 1, Len(fs) - 1))
             v == fs[Len(fs)].Account_Update
         IN  IF IsUpdatedValue(v) /\ \A k \in 1..Len(init) : init[k] # v
             THEN Append(init, v)
             ELSE init

DefaultColor(r) == IF r = "p0" THEN updated ELSE needsUpdate

\* createSymbologyRenderer(): the renderer the layer starts with
createSymbologyRenderer(r) ==
    [defaultSymbol |-> needsUpdate, uniqueValueInfos |-> BaseInfos(r)]

\* a faulty variant of updateRendererWithData that adds its entries to the
\* ones the layer's renderer already has
updateRendererAdding(r, fs) ==
    LET uv == UpdatedValues(fs)
    IN  [defaultSymbol |-> DefaultColor(r),
         uniqueValueInfos |->
             renderer.uniqueValueInfos \o [k \in 1..Len(uv) |-> Info(uv[k], updated)]]

\* updateRenderer() / updateRendererWithData(features): the renderer built
updateRendererWithData(r, fs) ==
    LET uv == UpdatedValues(fs)
    IN  [defaultSymbol |-> DefaultColor(r),
         uniqueValueInfos |->
             BaseInfos(r) \o [k \in 1..Len(uv) |-> Info(uv[k], updated)]]

\* UniqueValueRenderer: the symbol of the first entry whose value equals the
\* field value, the default symbol when none does
SymbolFor(rend, v) ==
    LET infos == rend.uniqueValueInfos
        m == {k \in 1..Len(infos) : infos[k].value = v}
    IN  IF m = {} THEN rend.defaultSymbol
        ELSE infos[CHOOSE k \in m : \A j \in m : k <= j].color

\* updateStats: the filter value && value.toString().trim() !== ""
CountsAsUpdated(v) == Truthy(v) /\ Trim(v) # <<>>

\* updateStats(): the two counters
updateStats(fs) ==
    [total |-> Len(fs),
     updated |-> Cardinality({k \in 1..Len(fs) : CountsAsUpdated(fs[k].Account_Update)})]

NoStats == [total |-> -1, updated |-> -1]

(***************************************************************************)
(* Values that stand for "nothing".                                        *)
(***************************************************************************)
NoFeature == [ref |-> "null"]
NoEvent == [op |-> "none"]

\* the search result list as the page starts: hidden and empty
NoResults == [hidden |-> TRUE, note |-> "empty", items |-> <<>>]

\* no request was issued yet
NoLatest == [n |-> 0, search |-> Null, select |-> 0]

\* the search box before anything is typed
SearchIdle ==
    /\ searchInput = <<>>
    /\ searchTimeout = 0
    /\ timers = {}
    /\ searchResults = NoResults
    /\ queries = <<>>
    /\ latest = NoLatest

(***************************************************************************)
(* init() and the Bulk Loader (revisions r1 and r2).                       *)
(***************************************************************************)
SampleValues == <<Null, <<"a">>, <<>>, <<" ">>, <<"b">>, <<" ", " ">>>>
SampleAU(i) == SampleValues[((i - 1) % Len(SampleValues)) + 1]

\* featureLayer.queryFeatures with query.start / query.num: the store answers
\* with the records at positions start .. start + min(num, limit) - 1
QueryPage(start, num) ==
    SubSeq(store, start + 1, Min(start + Min(num, maxRecordCount), Len(store)))

\* a faulty variant of HasMoreResults that goes on until an empty page
HasMoreUntilEmpty(r, page) == Len(page) > 0

\* whether the while loop goes round again after this page
HasMoreResults(r, page) ==
    IF r = "r1"
    THEN Len(page) # 0 /\ ~(Len(page) < batchSize)
    ELSE Len(page) = batchSize

LoadInit ==
    /\ rev \in {"r1", "r2"}
    /\ \E n \in 0..MaxRecords : store = [i \in 1..n |-> Feature(i, SampleAU(i))]
    /\ pc = "initMap"
    /\ batchSize \in 1..MaxBatch
    /\ maxRecordCount \in 1..MaxServerLimit
    /\ offset = 0
    /\ features = <<>>
    /\ requests = <<>>
    /\ allFeaturesDefined = FALSE
    /\ allFeatures = <<>>
    /\ renderer = createSymbologyRenderer(rev)
    /\ rendererUpdated = FALSE
    /\ stats = NoStats
    /\ searchReady = FALSE
    /\ listenersReady = FALSE
    /\ loadingShown = TRUE
    /\ selectedFeature = NoFeature
    /\ highlightGraphic = 0
    /\ viewGraphics = <<>>
    /\ panelVisible = FALSE
    /\ formInput = <<>>
    /\ saveBtnDisabled = FALSE
    /\ saves = <<>>
    /\ saveCount = 0
    /\ SearchIdle
    /\ ev = NoEvent

\* a faulty variant of InitCatch that reports nothing and leaves the loading
\* indicator as it is
InitCatchSilent(what) ==
    /\ pc' = "failed"
    /\ loadingShown' = loadingShown
    /\ ev' = [op |-> what, toasts |-> <<>>]

\* init(): the catch block
InitCatch(what) ==
    /\ pc' = "failed"
    /\ loadingShown' = FALSE
    /\ ev' = [op |-> what, toasts |-> <<"error">>]

\* await initMap() resolves
InitMapOk ==
    /\ pc = "initMap"
    /\ pc' = "load"
    /\ ev' = [op |-> "initMap", toasts |-> <<>>]
    /\ UNCHANGED <<rev, store, batchSize, maxRecordCount, offset, features,
                   requests, allFeaturesDefined, allFeatures, renderer,
                   rendererUpdated, stats, searchReady, listenersReady,
                   loadingShown>>
    /\ UNCHANGED uiVars
    /\ UNCHANGED searchVars

\* await initMap() rejects (viewDiv missing, view.when() fails)
InitMapFail ==
    /\ pc = "initMap"
    /\ InitCatch("initMapFailed")
    /\ UNCHANGED <<rev, store, batchSize, maxRecordCount, offset, features,
                   requests, allFeaturesDefined, allFeatures, renderer,
                   rendererUpdated, stats, searchReady, listenersReady>>
    /\ UNCHANGED uiVars
    /\ UNCHANGED searchVars

\* a faulty variant of LoadPageFail that publishes what was fetched so far
LoadPageFailPartial ==
    /\ pc = "load"
    /\ requests' = Append(requests, offset)
    /\ InitCatch("loadFailed")
    /\ allFeaturesDefined' = TRUE
    /\ allFeatures' = features
    /\ UNCHANGED <<rev, store, batchSize, maxRecordCount, offset, features,
                   renderer, rendererUpdated, stats, searchReady, listenersReady>>
    /\ UNCHANGED uiVars
    /\ UNCHANGED searchVars

\* one page request of loadAllFeatures is rejected: the error leaves
\* loadAllFeatures and init() catches it
LoadPageFail ==
    /\ pc = "load"
    /\ requests' = Append(requests, offset)
    /\ InitCatch("loadFailed")
    /\ UNCHANGED <<rev, store, batchSize, maxRecordCount, offset, features,
                   allFeaturesDefined, allFeatures, renderer, rendererUpdated,
                   stats, searchReady, listenersReady>>
    /\ UNCHANGED uiVars
    /\ UNCHANGED searchVars

\* one page request of loadAllFeatures is answered; after the last page the
\* collection is published, the renderer rebuilt and init() runs to its end
LoadPageOk ==
    /\ pc = "load"
    /\ requests' = Append(requests, offset)
    /\ LET page == QueryPage(offset, batchSize)
           skip == rev = "r1" /\ Len(page) = 0
           acc == IF skip THEN features ELSE features \o page
       IN  /\ features' = acc
           /\ offset' = IF skip THEN offset ELSE offset + batchSize
           /\ IF HasMoreResults(rev, page)
              THEN /\ ev' = [op |-> "loadPage", toasts |-> <<>>]
                   /\ UNCHANGED <<pc, allFeaturesDefined, allFeatures, renderer,
                                  rendererUpdated, stats, searchReady,
                                  listenersReady, loadingShown>>
              ELSE /\ allFeaturesDefined' = TRUE
                   /\ allFeatures' = acc
                   /\ renderer' = updateRendererWithData(rev, acc)
                   /\ rendererUpdated' = TRUE
                   /\ searchReady' = TRUE
                   /\ listenersReady' = TRUE
                   /\ stats' = updateStats(acc)
                   /\ loadingShown' = FALSE
                   /\ pc' = "ready"
                   /\ ev' = [op |-> "loaded", toasts |-> <<>>]
    /\ UNCHANGED <<rev, store, batchSize, maxRecordCount>>
    /\ UNCHANGED uiVars
    /\ UNCHANGED searchVars

LoadNext == InitMapOk \/ InitMapFail \/ LoadPageFail \/ LoadPageOk

SpecLoad == LoadInit /\ [][LoadNext]_vars

(***************************************************************************)
(* Selection, details panel and Edit Submitter (revisions p0, r2 and r3).  *)
(* The state after init() has completed a full load: the collection is the *)
(* store's records and the renderer was built from it.                     *)
(***************************************************************************)
\* the Account_Update values the records hold in the store at startup are
\* SampleValues taken in turn from a starting point s: null, filled, empty,
\* the enumerated blank, a second filled value, a longer blank
StartStore(s) == [i \in 1..NumFeatures |-> Feature(i, SampleAU(i + s))]

\* what applyEdits may answer: updateFeatureResults[0] = {success: true},
\* {success: false, error: {...}}, {success: false, error: null} with the
\* edit written ("nullErrorSaved") or not ("nullError"), {success: false}
\* with no error property, no results at all, or a rejected request
Results == {"success", "failed", "nullError", "nullErrorSaved", "noError",
            "noResults", "throws"}

\* the answers that come with the edit written to the store
Written == {"success", "nullErrorSaved"}

EditRevs == {"p0", "r2", "r3"}

SetAU(fs, i, v) == [fs EXCEPT ![i].Account_Update = v]

\* allFeatures.find(f => f.attributes.OBJECTID === id): its index, 0 if none
FindIndex(fs, id) ==
    LET m == {k \in 1..Len(fs) : fs[k].OBJECTID = id}
    IN  IF m = {} THEN 0 ELSE CHOOSE k \in m : \A j \in m : k <= j

\* selectedFeature.attributes: a record of the collection is that record
\* itself, a map graphic carries its own attributes
AttributesOf(sel) ==
    IF sel.ref = "collection" THEN allFeatures[sel.index] ELSE sel.attributes

\* view.graphics.remove(g)
RemoveGraphic(gs, g) ==
    LET m == {k \in 1..Len(gs) : gs[k] = g}
    IN  IF g = 0 \/ m = {} THEN gs
        ELSE LET k == CHOOSE x \in m : \A j \in m : x <= j
             IN  SubSeq(gs, 1, k - 1) \o SubSeq(gs, k + 1, Len(gs))

\* showMeterDetails rewrites the panel: the save button an earlier
\* saveAccountUpdate captured (r3) is no longer the one on the page
DetachButtons(ss) ==
    IF rev = "r3" THEN [k \in 1..Len(ss) |-> [ss[k] EXCEPT !.btn = FALSE]] ELSE ss

EditStart ==
    /\ \E s \in {0, 2, 4} : store = StartStore(s)
    /\ pc = "ready"
    /\ batchSize = 1000
    /\ maxRecordCount = 2000
    /\ offset = 1000
    /\ features = store
    /\ requests = <<0>>
    /\ allFeaturesDefined = TRUE
    /\ allFeatures = store
    /\ renderer = updateRendererWithData(rev, store)
    /\ rendererUpdated = TRUE
    /\ stats = updateStats(store)
    /\ searchReady = TRUE
    /\ listenersReady = TRUE
    /\ loadingShown = FALSE
    /\ selectedFeature = NoFeature
    /\ highlightGraphic = 0
    /\ viewGraphics = <<>>
    /\ panelVisible = FALSE
    /\ formInput = <<>>
    /\ saveBtnDisabled = FALSE
    /\ saves = <<>>
    /\ saveCount = 0
    /\ SearchIdle
    /\ ev = NoEvent

\* app.js with the cloned edit (r2, r3), its records loaded
EditInit == rev \in {"r2", "r3"} /\ EditStart

\* part_000 (and part_001), its records loaded
PartInit == rev = "p0" /\ EditStart

\* a faulty variant of selectMeter that leaves the earlier highlight on the map
selectMeterKeepingHighlight(f, attrs) ==
    /\ selectedFeature' = f
    /\ viewGraphics' = Append(viewGraphics, attrs.OBJECTID)
    /\ highlightGraphic' = attrs.OBJECTID
    /\ formInput' = OrEmpty(attrs.Account_Update)
    /\ panelVisible' = TRUE
    /\ saveBtnDisabled' = FALSE
    /\ saves' = DetachButtons(saves)
    /\ UNCHANGED saveCount

\* selectMeter(feature) with showMeterDetails(feature)
selectMeter(f, attrs) ==
    /\ selectedFeature' = f
    /\ viewGraphics' =
           Append(RemoveGraphic(viewGraphics, highlightGraphic), attrs.OBJECTID)
    /\ highlightGraphic' = attrs.OBJECTID
    /\ formInput' = OrEmpty(attrs.Account_Update)
    /\ panelVisible' = TRUE
    /\ saveBtnDisabled' = FALSE
    /\ saves' = DetachButtons(saves)
    /\ UNCHANGED saveCount

\* a search result is clicked: selectMeterByObjectId(objectId)
SelectFromList(id) ==
    /\ rev \in EditRevs
    /\ LET k == FindIndex(allFeatures, id)
       IN  /\ k # 0
           /\ selectMeter([ref |-> "collection", index |-> k], allFeatures[k])
    /\ ev' = [op |-> "select", OBJECTID |-> id, from |-> "list"]
    /\ UNCHANGED <<rev, store, allFeaturesDefined, allFeatures, renderer,
                   rendererUpdated, stats, searchReady, listenersReady,
                   loadingShown>>
    /\ UNCHANGED loadVars
    /\ UNCHANGED searchVars

\* view.on("click", handleMapClick) is the last statement of initMap before
\* it awaits the view: the map answers clicks while loadAllFeatures runs and
\* after init() has caught a failed load
MapListening ==
    \/ pc \in {"load", "ready"}
    \/ pc = "failed" /\ requests # <<>>

\* a meter is clicked on the map: handleMapClick once view.hitTest has
\* resolved; the graphic is the layer's own feature, not a collection record
MapClick(id) ==
    /\ rev \in EditRevs
    /\ MapListening
    /\ id \in 1..Len(store)
    /\ LET g == Feature(id, store[id].Account_Update)
       IN  selectMeter([ref |-> "graphic", attributes |-> g], g)
    /\ ev' = [op |-> "select", OBJECTID |-> id, from |-> "map"]
    /\ UNCHANGED <<rev, store, allFeaturesDefined, allFeatures, renderer,
                   rendererUpdated, stats, searchReady, listenersReady,
                   loadingShown>>
    /\ UNCHANGED loadVars
    /\ UNCHANGED searchVars

\* a faulty variant of closeMeterDetails that forgets the highlight on the map
closeMeterDetailsKeepingHighlight ==
    /\ panelVisible' = FALSE
    /\ viewGraphics' = viewGraphics
    /\ highlightGraphic' = 0
    /\ selectedFeature' = NoFeature
    /\ formInput' = <<>>

\* closeMeterDetails()
closeMeterDetails ==
    /\ panelVisible' = FALSE
    /\ viewGraphics' = RemoveGraphic(viewGraphics, highlightGraphic)
    /\ highlightGraphic' = 0
    /\ selectedFeature' = NoFeature
    /\ formInput' = <<>>

\* the close or cancel button is clicked
CloseDetails ==
    /\ rev \in EditRevs
    /\ panelVisible
    /\ closeMeterDetails
    /\ saveBtnDisabled' = FALSE
    /\ saves' = DetachButtons(saves)
    /\ UNCHANGED saveCount
    /\ ev' = [op |-> "close"]
    /\ UNCHANGED <<rev, store, allFeaturesDefined, allFeatures, renderer,
                   rendererUpdated, stats, searchReady, listenersReady,
                   loadingShown>>
    /\ UNCHANGED loadVars
    /\ UNCHANGED searchVars

\* the save button is clicked with `input` in the field: saveAccountUpdate up
\* to its await.  The request remembers the record's value in the collection
\* before the click (before), which the code does not keep.
SaveAccountUpdate(input) ==
    /\ rev \in EditRevs
    /\ panelVisible
    /\ rev = "r3" => ~saveBtnDisabled
    /\ saveCount < MaxSaves
    /\ IF selectedFeature = NoFeature
       THEN /\ ev' = [op |-> "saveIgnored"]
            /\ UNCHANGED <<allFeatures, selectedFeature, formInput,
                           saveBtnDisabled, saves, saveCount, loadingShown>>
       ELSE LET newValue == Trim(input)
                id == AttributesOf(selectedFeature).OBJECTID
                k == FindIndex(allFeatures, id)
                req == [OBJECTID |-> id, value |-> newValue,
                        before |-> IF k = 0
                                   THEN AttributesOf(selectedFeature).Account_Update
                                   ELSE allFeatures[k].Account_Update,
                        btn |-> TRUE]
            IN  /\ formInput' = input
                /\ loadingShown' = (rev # "r3")
                /\ saveBtnDisabled' = (rev = "r3")
                /\ IF rev = "p0"
                   THEN \* selectedFeature.attributes[accountUpdate] = newValue
                        IF selectedFeature.ref = "collection"
                        THEN /\ allFeatures' =
                                    SetAU(allFeatures, selectedFeature.index, newValue)
                             /\ UNCHANGED selectedFeature
                        ELSE /\ selectedFeature' =
                                    [selectedFeature EXCEPT
                                        !.attributes.Account_Update = newValue]
                             /\ UNCHANGED allFeatures
                   ELSE UNCHANGED <<allFeatures, selectedFeature>>
                /\ saves' = Append(saves, req)
                /\ saveCount' = saveCount + 1
                /\ ev' = [op |-> "save", OBJECTID |-> id]
    /\ UNCHANGED <<rev, store, allFeaturesDefined, renderer, rendererUpdated, stats,
                   searchReady, listenersReady, highlightGraphic, viewGraphics,
                   panelVisible>>
    /\ UNCHANGED loadVars
    /\ UNCHANGED searchVars

\* whether saveAccountUpdate takes the answer for a success
Accepted(r, res) ==
    IF r = "p0" THEN res = "success"
    ELSE res \in {"success", "nullError", "nullErrorSaved"}

\* a faulty variant of PatchCollection that patches nothing
PatchNothing(fs, id, v) == fs

\* a faulty variant of PatchCollection that writes the value to every record
PatchEvery(fs, id, v) == [k \in 1..Len(fs) |-> [fs[k] EXCEPT !.Account_Update = v]]

\* localFeature = allFeatures.find(...); if (localFeature) localFeature... = v
PatchCollection(fs, id, v) ==
    IF FindIndex(fs, id) = 0 THEN fs ELSE SetAU(fs, FindIndex(fs, id), v)

\* a faulty variant of Without that leaves the answered request in flight, as
\* sending it again would
KeptForRetry(ss, k) == ss

\* the requests in flight once the one in slot k has been answered
Without(ss, k) == SubSeq(ss, 1, k - 1) \o SubSeq(ss, k + 1, Len(ss))

\* the end of saveAccountUpdate for the request in slot k: r3 re-enables the
\* button it captured, the others hide the loading indicator
SaveEpilogue(k) ==
    /\ loadingShown' = IF rev = "r3" THEN loadingShown ELSE FALSE
    /\ saveBtnDisabled' =
           IF rev = "r3" /\ saves[k].btn THEN FALSE ELSE saveBtnDisabled

\* applyEdits answers the request in slot k: saveAccountUpdate after its await
SaveResult(k, res) ==
    /\ rev \in EditRevs
    /\ k \in 1..Len(saves)
    /\ store' = IF res \in Written
                THEN SetAU(store, FindIndex(store, saves[k].OBJECTID), saves[k].value)
                ELSE store
    /\ LET req == saves[k]
           newValue == req.value
           done == [op |-> "saveResult", OBJECTID |-> req.OBJECTID,
                    value |-> newValue, result |-> res]
       IN  IF Accepted(rev, res)
           THEN IF selectedFeature = NoFeature \/ ~allFeaturesDefined
                THEN \* selectedFeature.attributes, or window.allFeatures.find
                     \* while window.allFeatures is undefined, throws a
                     \* TypeError after the success toast; the catch block
                     \* shows the error toast
                     /\ ev' = [done EXCEPT !.op = "saveResultThrew"]
                     /\ SaveEpilogue(k)
                     /\ saves' = Without(saves, k)
                     /\ UNCHANGED <<allFeatures, selectedFeature, renderer,
                                    rendererUpdated, stats, highlightGraphic,
                                    viewGraphics, panelVisible, formInput>>
                ELSE LET id == AttributesOf(selectedFeature).OBJECTID
                         patched == PatchCollection(allFeatures, id, newValue)
                     IN  /\ allFeatures' = patched
                         /\ renderer' = updateRendererWithData(rev, patched)
                         /\ rendererUpdated' = TRUE
                         /\ stats' = updateStats(patched)
                         /\ ev' = [done EXCEPT !.op = "saveResultAccepted"]
                         /\ IF rev = "r3"
                            THEN \* the panel stays open
                                 /\ selectedFeature' =
                                        IF selectedFeature.ref = "graphic"
                                        THEN [selectedFeature EXCEPT
                                                !.attributes.Account_Update = newValue]
                                        ELSE selectedFeature
                                 /\ SaveEpilogue(k)
                                 /\ saves' = Without(saves, k)
                                 /\ UNCHANGED <<highlightGraphic, viewGraphics,
                                                panelVisible, formInput>>
                            ELSE /\ closeMeterDetails
                                 /\ loadingShown' = FALSE
                                 /\ UNCHANGED saveBtnDisabled
                                 /\ saves' = Without(saves, k)
           ELSE /\ ev' = [done EXCEPT !.op = "saveResultRejected"]
                /\ SaveEpilogue(k)
                /\ saves' = Without(saves, k)
                /\ UNCHANGED <<allFeatures, selectedFeature, renderer,
                               rendererUpdated, stats, highlightGraphic,
                               viewGraphics, panelVisible, formInput>>
    /\ UNCHANGED <<rev, allFeaturesDefined, searchReady, listenersReady,
                   saveCount>>
    /\ UNCHANGED loadVars
    /\ UNCHANGED searchVars

EditNext ==
    \/ \E id \in 1..NumFeatures : SelectFromList(id)
    \/ \E id \in 1..NumFeatures : MapClick(id)
    \/ CloseDetails
    \/ \E input \in InputTexts : SaveAccountUpdate(input)
    \/ \E k \in 1..MaxSaves, res \in Results : SaveResult(k, res)

SpecEdit == EditInit /\ [][EditNext]_vars

SpecPart == PartInit /\ [][EditNext]_vars

(***************************************************************************)
(* init() of app.js 447-463 together with the handlers that are attached   *)
(* while it runs: the map's click handler (initMap) and the buttons of the *)
(* details panel (showMeterDetails).  The search box and the result list   *)
(* get their listeners from initSearch, after loadAllFeatures has returned.*)
(***************************************************************************)
BootInit == rev = "r2" /\ LoadInit

BootNext ==
    \/ LoadNext
    \/ \E id \in 1..NumFeatures : MapClick(id)
    \/ CloseDetails
    \/ \E input \in InputTexts : SaveAccountUpdate(input)
    \/ \E k \in 1..MaxSaves, res \in Results : SaveResult(k, res)

SpecBoot == BootInit /\ [][BootNext]_vars

(***************************************************************************)
(* The modal editor of revision r4.  There is no in-memory collection: the *)
(* layer draws the store's records with the renderer that                  *)
(* updateRendererWithData installed when the layer loaded.                 *)
(***************************************************************************)
ModalInit ==
    /\ rev = "r4"
    /\ \E s \in {0, 2, 4} : store = StartStore(s)
    /\ pc = "ready"
    /\ batchSize = 0
    /\ maxRecordCount = 2000
    /\ offset = 0
    /\ features = <<>>
    /\ requests = <<>>
    /\ allFeaturesDefined = FALSE
    /\ allFeatures = <<>>
    /\ renderer = updateRendererWithData(rev, store)
    /\ rendererUpdated = TRUE
    /\ stats = NoStats
    /\ searchReady = TRUE
    /\ listenersReady = TRUE
    /\ loadingShown = FALSE
    /\ selectedFeature = NoFeature
    /\ highlightGraphic = 0
    /\ viewGraphics = <<>>
    /\ panelVisible = FALSE
    /\ formInput = <<>>
    /\ saveBtnDisabled = FALSE
    /\ saves = <<>>
    /\ saveCount = 0
    /\ SearchIdle
    /\ ev = NoEvent

modalFixed == <<rev, allFeaturesDefined, allFeatures, rendererUpdated, stats,
                searchReady, listenersReady, saveBtnDisabled>>

\* clearHighlight()
clearHighlight ==
    /\ viewGraphics' = RemoveGraphic(viewGraphics, highlightGraphic)
    /\ highlightGraphic' = 0

\* closeModal()
closeModal ==
    /\ panelVisible' = FALSE
    /\ clearHighlight
    /\ selectedFeature' = NoFeature
    /\ formInput' = <<>>

\* selectFeatureById(objectId) once its query has resolved: selectFeature with
\* highlightFeature and showEditModal on the record the store returned
selectFeatureById(id) ==
    /\ rev = "r4"
    /\ LET g == Feature(id, store[id].Account_Update)
       IN  /\ selectedFeature' = [ref |-> "graphic", attributes |-> g]
           /\ viewGraphics' =
                  Append(RemoveGraphic(viewGraphics, highlightGraphic), id)
           /\ highlightGraphic' = id
           /\ formInput' = OrEmpty(g.Account_Update)
           /\ panelVisible' = TRUE
    /\ loadingShown' = FALSE
    /\ ev' = [op |-> "select", OBJECTID |-> id, from |-> "query"]
    /\ UNCHANGED <<store, renderer, saves, saveCount>>
    /\ UNCHANGED modalFixed
    /\ UNCHANGED loadVars
    /\ UNCHANGED searchVars

\* the clear button of the search box: clearSearch()
ClearSearch ==
    /\ rev = "r4"
    /\ highlightGraphic # 0 \/ searchInput # <<>> \/ ~searchResults.hidden
    /\ searchInput' = <<>>
    /\ searchResults' = [searchResults EXCEPT !.hidden = TRUE]
    /\ clearHighlight
    /\ ev' = [op |-> "clearSearch"]
    /\ UNCHANGED <<store, renderer, loadingShown, selectedFeature, panelVisible,
                   formInput, saves, saveCount, searchTimeout, timers>>
    /\ UNCHANGED remoteVars
    /\ UNCHANGED modalFixed
    /\ UNCHANGED loadVars

\* the cancel or close button, the backdrop or Escape: closeModal()
CloseModal ==
    /\ rev = "r4"
    /\ panelVisible
    /\ closeModal
    /\ ev' = [op |-> "close"]
    /\ UNCHANGED <<store, renderer, loadingShown, saves, saveCount>>
    /\ UNCHANGED modalFixed
    /\ UNCHANGED loadVars
    /\ UNCHANGED searchVars

\* the save button is clicked with `input` in the field: saveChanges up to
\* its await
SaveChanges(input) ==
    /\ rev = "r4"
    /\ panelVisible
    /\ saveCount < MaxSaves
    /\ selectedFeature # NoFeature
    /\ LET newAccountUpdate == Trim(input)
           id == selectedFeature.attributes.OBJECTID
           req == [OBJECTID |-> id,
                   value |-> IF Truthy(newAccountUpdate)
                             THEN newAccountUpdate ELSE Null,
                   before |-> selectedFeature.attributes.Account_Update,
                   btn |-> TRUE]
       IN  /\ formInput' = input
           /\ saves' = Append(saves, req)
           /\ ev' = [op |-> "save", OBJECTID |-> id]
    /\ loadingShown' = TRUE
    /\ saveCount' = saveCount + 1
    /\ UNCHANGED <<store, renderer, selectedFeature, highlightGraphic,
                   viewGraphics, panelVisible>>
    /\ UNCHANGED modalFixed
    /\ UNCHANGED loadVars
    /\ UNCHANGED searchVars

\* applyEdits answers the request in slot k: saveChanges after its await.
\* featureLayer.refresh() draws the store's records again with the renderer
\* the layer already has
SaveChangesResult(k, res) ==
    /\ rev = "r4"
    /\ k \in 1..Len(saves)
    /\ store' = IF res \in Written
                THEN SetAU(store, FindIndex(store, saves[k].OBJECTID), saves[k].value)
                ELSE store
    /\ LET done == [op |-> "saveResult", OBJECTID |-> saves[k].OBJECTID,
                    value |-> saves[k].value, result |-> res]
       IN  IF res = "success"
           THEN /\ closeModal
                /\ ev' = [done EXCEPT !.op = "saveResultAccepted"]
           ELSE /\ ev' = [done EXCEPT !.op = "saveResultRejected"]
                /\ UNCHANGED <<selectedFeature, highlightGraphic, viewGraphics,
                               panelVisible, formInput>>
    /\ saves' = Without(saves, k)
    /\ loadingShown' = FALSE
    /\ UNCHANGED <<renderer, saveCount>>
    /\ UNCHANGED modalFixed
    /\ UNCHANGED loadVars
    /\ UNCHANGED searchVars

ModalNext ==
    \/ \E id \in 1..NumFeatures : selectFeatureById(id)
    \/ ClearSearch
    \/ CloseModal
    \/ \E input \in InputTexts : SaveChanges(input)
    \/ \E k \in 1..MaxSaves, res \in Results : SaveChangesResult(k, res)

SpecModal == ModalInit /\ [][ModalNext]_vars

\* the details panel of app.js 398-1385 and the modal of app.js 1387-2068
UIInit == EditInit \/ ModalInit

UINext == EditNext \/ ModalNext

SpecUI == UIInit /\ [][UINext]_vars

(***************************************************************************)
(* The Search Index: the search box, its debounce timer and the filter.    *)
(***************************************************************************)
appVars == <<rev, store, allFeaturesDefined, allFeatures, renderer,
             rendererUpdated, stats, searchReady, listenersReady, loadingShown>>

\* String.prototype.toLowerCase on the letters the model uses
toLowerCase(s) ==
    [i \in 1..Len(s) |->
        IF s[i] = "A" THEN "a" ELSE IF s[i] = "B" THEN "b"
        ELSE IF s[i] = "C" THEN "c" ELSE s[i]]

\* String.prototype.includes
includes(s, q) ==
    \E i \in 0..(Len(s) - Len(q)) : SubSeq(s, i + 1, i + Len(q)) = q

\* a faulty variant of FieldMatches that compares the letters as they are
FieldMatchesCase(r, field, query) ==
    IF r = "r4" THEN includes(OrEmpty(field), query)
    ELSE Truthy(field) /\ includes(field, query)

\* address && address.toLowerCase().includes(query.toLowerCase());
\* (attrs.Address || '').toLowerCase().includes(searchLower) in searchFeatures
FieldMatches(r, field, query) ==
    IF r = "r4" THEN includes(toLowerCase(OrEmpty(field)), toLowerCase(query))
    ELSE Truthy(field) /\ includes(toLowerCase(field), toLowerCase(query))

\* the filter callback of performSearch / searchFeatures
Matches(r, f, query) ==
    FieldMatches(r, f.Address, query) \/ FieldMatches(r, f.Account, query)

\* .slice(0, 10); .slice(0, 8) in app.js 1083-1124
SearchLimit(r) == IF r = "r3" THEN 8 ELSE 10

\* allFeatures.filter(...).slice(0, limit)
FilterFeatures(r, fs, query) ==
    LET hit(f) == Matches(r, f, query)
        all == SelectSeq(fs, hit)
    IN  SubSeq(all, 1, Min(Len(all), SearchLimit(r)))

\* what the user types into the search box
SearchTexts == {<<>>, <<"a">>, <<" ", "a", " ">>, <<"a", "b">>, <<"A", "B">>,
                <<" ", "b", "c">>, <<"z", "z">>}

\* records that hold "ab" in some letter case, and records that do not
MatchKinds == <<[Address |-> <<"A", "b">>, Account |-> Null],
                [Address |-> Null, Account |-> <<"a", "b", "c">>],
                [Address |-> <<"c", "a", "B">>, Account |-> <<>>]>>
OtherKinds == <<[Address |-> Null, Account |-> Null],
                [Address |-> <<>>, Account |-> <<>>],
                [Address |-> <<"c", "b">>, Account |-> <<"a">>]>>

SearchRecord(i, kind) ==
    [OBJECTID |-> i, Account_Update |-> Null,
     Address |-> kind.Address, Account |-> kind.Account]

\* the store of n records in which record p holds no "ab" (p in 1..n), every
\* record holds one (p = 0) or none does (p = n + 1)
SearchStore(n, p) ==
    [i \in 1..n |->
        SearchRecord(i, IF p = i \/ p = n + 1
                        THEN OtherKinds[(i % Len(OtherKinds)) + 1]
                        ELSE MatchKinds[(i % Len(MatchKinds)) + 1])]

SearchInit ==
    /\ rev \in {"p0", "r2", "r3", "r4"}
    /\ \E n \in 0..MaxSearchColl : \E p \in 0..(n + 1) : store = SearchStore(n, p)
    /\ pc = "ready"
    /\ batchSize = 1000
    /\ maxRecordCount = 2000
    /\ offset = 1000
    /\ features = IF rev = "r4" THEN <<>> ELSE store
    /\ requests = <<0>>
    /\ allFeaturesDefined = (rev # "r4")
    /\ allFeatures = IF rev = "r4" THEN <<>> ELSE store
    /\ renderer = updateRendererWithData(rev, store)
    /\ rendererUpdated = TRUE
    /\ stats = IF rev = "r4" THEN NoStats ELSE updateStats(store)
    /\ searchReady = TRUE
    /\ listenersReady = TRUE
    /\ loadingShown = FALSE
    /\ selectedFeature = NoFeature
    /\ highlightGraphic = 0
    /\ viewGraphics = <<>>
    /\ panelVisible = FALSE
    /\ formInput = <<>>
    /\ saveBtnDisabled = FALSE
    /\ saves = <<>>
    /\ saveCount = 0
    /\ SearchIdle
    /\ ev = NoEvent

\* performSearch(query) of the panel revisions; searchFeatures(query) with
\* displaySearchResults of app.js 1387-2068 once its query has resolved
RunSearch(query, from) ==
    IF rev # "r4" /\ (~allFeaturesDefined \/ Len(allFeatures) = 0)
    THEN /\ searchResults' = [hidden |-> FALSE, note |-> "loading", items |-> <<>>]
         /\ ev' = [op |-> "searchNoData", query |-> query, from |-> from]
    ELSE LET found == FilterFeatures(rev, IF rev = "r4" THEN store ELSE allFeatures,
                                     query)
             ids == [k \in 1..Len(found) |-> found[k].OBJECTID]
         IN  /\ searchResults' =
                    [hidden |-> FALSE,
                     note |-> IF Len(found) = 0 THEN "none" ELSE "list",
                     items |-> ids]
             /\ ev' = [op |-> "filter", query |-> query, from |-> from]

\* a faulty variant of Cancelled that leaves the scheduled filter in place
CancelledNothing(ts, id) == ts

\* clearTimeout(searchTimeout)
Cancelled(ts, id) == {t \in ts : t.id # id}

\* the input listener of the search box: initSearch / handleSearchInput
SearchInputEvent(text) ==
    /\ searchReady
    /\ searchTimeout < MaxTimers
    /\ searchInput' = text
    /\ LET query == Trim(text)
           rest == Cancelled(timers, searchTimeout)
       IN  IF Len(query) < 2
           THEN /\ timers' = rest
                /\ searchResults' = IF rev = "r4"
                                    THEN [searchResults EXCEPT !.hidden = TRUE]
                                    ELSE NoResults
                /\ ev' = [op |-> "input", query |-> query, scheduled |-> FALSE]
                /\ UNCHANGED searchTimeout
           ELSE /\ searchTimeout' = searchTimeout + 1
                /\ timers' = rest \cup {[id |-> searchTimeout + 1, query |-> query]}
                /\ ev' = [op |-> "input", query |-> query, scheduled |-> TRUE]
                /\ UNCHANGED searchResults
    /\ UNCHANGED remoteVars
    /\ UNCHANGED appVars
    /\ UNCHANGED loadVars
    /\ UNCHANGED uiVars

\* a scheduled timeout fires: its callback runs the search
TimerFires ==
    /\ \E t \in timers :
          /\ timers' = timers \ {t}
          /\ RunSearch(t.query, "timer")
    /\ UNCHANGED <<searchInput, searchTimeout>>
    /\ UNCHANGED remoteVars
    /\ UNCHANGED appVars
    /\ UNCHANGED loadVars
    /\ UNCHANGED uiVars

\* Enter in the search box or the search button: performSearch() of
\* app.js 1770-1777
SearchEnter ==
    /\ rev = "r4"
    /\ LET query == Trim(searchInput)
       IN  IF Truthy(query)
           THEN RunSearch(query, "enter")
           ELSE /\ ev' = [op |-> "enterIgnored"]
                /\ UNCHANGED searchResults
    /\ UNCHANGED <<searchInput, searchTimeout, timers>>
    /\ UNCHANGED remoteVars
    /\ UNCHANGED appVars
    /\ UNCHANGED loadVars
    /\ UNCHANGED uiVars

\* the clear button of the panel revisions: the box and the list are emptied,
\* the timeout is left alone
ClearSearchBox ==
    /\ rev \in {"p0", "r2", "r3"}
    /\ searchReady
    /\ searchInput' = <<>>
    /\ searchResults' = NoResults
    /\ ev' = [op |-> "clearSearch"]
    /\ UNCHANGED <<searchTimeout, timers>>
    /\ UNCHANGED remoteVars
    /\ UNCHANGED appVars
    /\ UNCHANGED loadVars
    /\ UNCHANGED uiVars

SearchNext ==
    \/ \E text \in SearchTexts : SearchInputEvent(text)
    \/ TimerFires
    \/ SearchEnter
    \/ ClearSearchBox
    \/ ClearSearch

SpecSearch == SearchInit /\ [][SearchNext]_vars

(***************************************************************************)
(* The remote queries of app.js 1387-2068, request and response apart:     *)
(* searchFeatures and selectFeatureById each await featureLayer            *)
(* .queryFeatures, and the user goes on acting while requests are in       *)
(* flight.  Responses arrive in any order, or fail.                        *)
(***************************************************************************)
\* what the user types into the search box in SpecRemote
RemoteTexts == {<<"a">>, <<"a", "b">>, <<"z", "z">>}

\* attrs.Address || 'No address', the text of a result's <strong>
NoAddress == <<"N", "o", " ", "a", "d", "d", "r", "e", "s", "s">>

RemoteInit ==
    /\ rev = "r4"
    /\ \E n \in 0..MaxRemoteColl : \E p \in 0..(n + 1) : store = SearchStore(n, p)
    /\ pc = "ready"
    /\ batchSize = 0
    /\ maxRecordCount = 2000
    /\ offset = 0
    /\ features = <<>>
    /\ requests = <<>>
    /\ allFeaturesDefined = FALSE
    /\ allFeatures = <<>>
    /\ renderer = updateRendererWithData(rev, store)
    /\ rendererUpdated = TRUE
    /\ stats = NoStats
    /\ searchReady = TRUE
    /\ listenersReady = TRUE
    /\ loadingShown = FALSE
    /\ selectedFeature = NoFeature
    /\ highlightGraphic = 0
    /\ viewGraphics = <<>>
    /\ panelVisible = FALSE
    /\ formInput = <<>>
    /\ saveBtnDisabled = FALSE
    /\ saves = <<>>
    /\ saveCount = 0
    /\ SearchIdle
    /\ ev = NoEvent

remoteFixed == <<rev, store, allFeaturesDefined, allFeatures, renderer,
                 rendererUpdated, stats, searchReady, listenersReady,
                 saveBtnDisabled, saves, saveCount>>

selectionVars == <<selectedFeature, highlightGraphic, viewGraphics,
                   panelVisible, formInput>>

\* searchFeatures(query) up to its await: showLoading(true) and the request
StartSearch(query, from) ==
    /\ latest.n < MaxQueries
    /\ queries' = Append(queries, [kind |-> "search", query |-> query])
    /\ latest' = [latest EXCEPT !.n = @ + 1, !.search = query]
    /\ loadingShown' = TRUE
    /\ ev' = [op |-> "searchStart", query |-> query, from |-> from]

\* a scheduled timeout fires: its callback calls searchFeatures(query)
RemoteTimerFires ==
    /\ rev = "r4"
    /\ \E t \in timers :
          /\ timers' = timers \ {t}
          /\ StartSearch(t.query, "timer")
    /\ UNCHANGED <<searchInput, searchTimeout, searchResults>>
    /\ UNCHANGED selectionVars
    /\ UNCHANGED remoteFixed
    /\ UNCHANGED loadVars

\* Enter in the search box or the search button: performSearch()
RemoteEnter ==
    /\ rev = "r4"
    /\ LET query == Trim(searchInput)
       IN  IF Truthy(query)
           THEN StartSearch(query, "enter")
           ELSE /\ ev' = [op |-> "enterIgnored"]
                /\ UNCHANGED <<queries, latest, loadingShown>>
    /\ UNCHANGED <<searchInput, searchTimeout, timers, searchResults>>
    /\ UNCHANGED selectionVars
    /\ UNCHANGED remoteFixed
    /\ UNCHANGED loadVars

\* a faulty variant of searchUnavailable that leaves the loading indicator
searchUnavailableStillLoading ==
    /\ searchResults' = [hidden |-> FALSE, note |-> "unavailable", items |-> <<>>]
    /\ loadingShown' = loadingShown

\* the catch and finally blocks of searchFeatures
searchUnavailable ==
    /\ searchResults' = [hidden |-> FALSE, note |-> "unavailable", items |-> <<>>]
    /\ loadingShown' = FALSE

\* the query of searchFeatures in slot k resolves, or is rejected
SearchResponse(k, ok) ==
    /\ rev = "r4"
    /\ k \in 1..Len(queries)
    /\ queries[k].kind = "search"
    /\ queries' = Without(queries, k)
    /\ IF ok
       THEN /\ RunSearch(queries[k].query, "response")
            /\ loadingShown' = FALSE
       ELSE /\ searchUnavailable
            /\ ev' = [op |-> "searchFailed", query |-> queries[k].query]
    /\ UNCHANGED <<searchInput, searchTimeout, timers, latest>>
    /\ UNCHANGED selectionVars
    /\ UNCHANGED remoteFixed
    /\ UNCHANGED loadVars

\* selectFeatureById(objectId) up to its await
StartSelect(id, from) ==
    /\ latest.n < MaxQueries
    /\ queries' = Append(queries, [kind |-> "select", OBJECTID |-> id])
    /\ latest' = [latest EXCEPT !.n = @ + 1, !.select = id]
    /\ ev' = [op |-> "choose", OBJECTID |-> id, from |-> from]

\* a meter is clicked on the map: handleMapClick once view.hitTest has
\* resolved calls selectFeatureById without awaiting it, and its finally
\* block hides the loading indicator
ChooseOnMap(id) ==
    /\ rev = "r4"
    /\ id \in 1..Len(store)
    /\ StartSelect(id, "map")
    /\ loadingShown' = FALSE
    /\ UNCHANGED <<searchInput, searchTimeout, timers, searchResults>>
    /\ UNCHANGED selectionVars
    /\ UNCHANGED remoteFixed
    /\ UNCHANGED loadVars

\* a result of the list is clicked: selectFeatureById, hideSearchResults and
\* the result's address goes into the search box
ChooseFromList(id) ==
    /\ rev = "r4"
    /\ ~searchResults.hidden
    /\ \E i \in 1..Len(searchResults.items) : searchResults.items[i] = id
    /\ StartSelect(id, "list")
    /\ loadingShown' = TRUE
    /\ searchResults' = [searchResults EXCEPT !.hidden = TRUE]
    /\ searchInput' = IF Truthy(store[id].Address) THEN store[id].Address
                      ELSE NoAddress
    /\ UNCHANGED <<searchTimeout, timers>>
    /\ UNCHANGED selectionVars
    /\ UNCHANGED remoteFixed
    /\ UNCHANGED loadVars

\* selectFeature(feature) with highlightFeature and showEditModal
selectFeature(g) ==
    /\ selectedFeature' = [ref |-> "graphic", attributes |-> g]
    /\ viewGraphics' =
           Append(RemoveGraphic(viewGraphics, highlightGraphic), g.OBJECTID)
    /\ highlightGraphic' = g.OBJECTID
    /\ formInput' = OrEmpty(g.Account_Update)
    /\ panelVisible' = TRUE

\* the query of selectFeatureById in slot k resolves with the record, or is
\* rejected
SelectResponse(k, ok) ==
    /\ rev = "r4"
    /\ k \in 1..Len(queries)
    /\ queries[k].kind = "select"
    /\ queries' = Without(queries, k)
    /\ IF ok
       THEN /\ selectFeature(store[queries[k].OBJECTID])
            /\ ev' = [op |-> "selected", OBJECTID |-> queries[k].OBJECTID]
       ELSE /\ ev' = [op |-> "selectFailed", OBJECTID |-> queries[k].OBJECTID]
            /\ UNCHANGED selectionVars
    /\ loadingShown' = FALSE
    /\ UNCHANGED <<searchInput, searchTimeout, timers, searchResults, latest>>
    /\ UNCHANGED remoteFixed
    /\ UNCHANGED loadVars

RemoteNext ==
    \/ \E text \in RemoteTexts : SearchInputEvent(text)
    \/ RemoteTimerFires
    \/ RemoteEnter
    \/ \E k \in 1..MaxQueries, ok \in BOOLEAN : SearchResponse(k, ok)
    \/ \E id \in 1..MaxRemoteColl : ChooseOnMap(id)
    \/ \E id \in 1..MaxRemoteColl : ChooseFromList(id)
    \/ \E k \in 1..MaxQueries, ok \in BOOLEAN : SelectResponse(k, ok)
    \/ ClearSearch
    \/ CloseModal

SpecRemote == RemoteInit /\ [][RemoteNext]_vars

(***************************************************************************)
(* The Classifier on its own: updateRenderer / updateRendererWithData is   *)
(* called on collections of every shape, any number of times.              *)
(***************************************************************************)
ClassValues == {Null, <<>>, <<" ">>, <<" ", " ">>, <<"a">>, <<"b">>}

\* the collections of n records with Account_Update values from ClassValues
Collections(n) ==
    {[i \in 1..n |-> Feature(i, f[i])] : f \in [1..n -> ClassValues]}

ClassifyInit ==
    /\ rev \in {"p0", "r1", "r2", "r3"}
    /\ \E n \in 0..MaxColl : store \in Collections(n)
    /\ pc = "ready"
    /\ batchSize = 1000
    /\ maxRecordCount = 2000
    /\ offset = 1000
    /\ features = store
    /\ requests = <<0>>
    /\ allFeaturesDefined = TRUE
    /\ allFeatures = store
    /\ renderer = createSymbologyRenderer(rev)
    /\ rendererUpdated = FALSE
    /\ stats = NoStats
    /\ searchReady = FALSE
    /\ listenersReady = FALSE
    /\ loadingShown = TRUE
    /\ selectedFeature = NoFeature
    /\ highlightGraphic = 0
    /\ viewGraphics = <<>>
    /\ panelVisible = FALSE
    /\ formInput = <<>>
    /\ saveBtnDisabled = FALSE
    /\ saves = <<>>
    /\ saveCount = 0
    /\ SearchIdle
    /\ ev = NoEvent

\* one call updateRendererWithData(window.allFeatures)
Classify ==
    /\ renderer' = updateRendererWithData(rev, allFeatures)
    /\ rendererUpdated' = TRUE
    /\ ev' = [op |-> "classify", again |-> rendererUpdated]
    /\ UNCHANGED <<rev, store, allFeaturesDefined, allFeatures, stats,
                   searchReady, listenersReady, loadingShown>>
    /\ UNCHANGED loadVars
    /\ UNCHANGED uiVars
    /\ UNCHANGED searchVars

ClassifyNext == Classify

SpecClassify == ClassifyInit /\ [][ClassifyNext]_vars

(***************************************************************************)
(* Claims about the Bulk Loader.                                           *)
(***************************************************************************)
CeilDiv(n, b) == (n + b - 1) \div b

\* the page requests the spec expects for n records and page size b
ExpectedRequests(n, b) == IF n % b = 0 THEN n \div b + 1 ELSE CeilDiv(n, b)

\* C3: against a store that answers whole pages (its limit is no smaller than
\* the page size), the loader never issues more than ceil(N/B) requests
\* (ceil(N/B)+1 when N is a multiple of B), their offsets are 0, B, 2B, ...,
\* and when it completes the collection is the store's N records in store
\* order and exactly that many requests were issued.
C3_PageCount ==
    maxRecordCount >= batchSize =>
        /\ Len(requests) <= ExpectedRequests(Len(store), batchSize)
        /\ \A k \in 1..Len(requests) : requests[k] = (k - 1) * batchSize
        /\ pc = "ready" =>
              /\ allFeatures = store
              /\ Len(requests) = ExpectedRequests(Len(store), batchSize)

C3_Witness ==
    /\ pc = "ready"
    /\ maxRecordCount >= batchSize
    /\ batchSize = 2
    /\ Len(store) = 4
    /\ Len(requests) = 3

\* C4: whatever the server's own result limit, a completed load holds every
\* record of the store.
C4_AllRecordsLoaded == pc = "ready" => allFeatures = store

\* C5: when a page request fails, window.allFeatures is not assigned, the
\* renderer is not rebuilt, and initSearch, initEventListeners and updateStats
\* do not run.
C5_NoPartialLoad ==
    ev.op = "loadFailed" =>
        /\ ~allFeaturesDefined
        /\ allFeatures = <<>>
        /\ ~rendererUpdated
        /\ renderer = createSymbologyRenderer(rev)
        /\ ~searchReady
        /\ ~listenersReady
        /\ stats = NoStats

\* a later page fails after earlier pages were accumulated
C5_Witness == ev.op = "loadFailed" /\ Len(features) > 0 /\ Len(requests) > 1

(***************************************************************************)
(* Claims about the Edit Submitter and the Classifier.                     *)
(***************************************************************************)
\* the answers of the store that report a failure
Failures == {"failed", "noResults", "throws"}

SaveResultOps == {"saveResultAccepted", "saveResultRejected", "saveResultThrew"}

\* C1: a record is selected from the search list, save is clicked (the only
\* save so far) and the store's answer is a failure: when the handler returns
\* the record in the collection holds the value it had before the click, the
\* panel is open and the record is still selected.
C1_RejectionLeavesRecord ==
    [][(/\ ev.op = "save"
        /\ saveCount = 1
        /\ selectedFeature.ref = "collection"
        /\ ev'.op = "saveResultRejected"
        /\ ev'.result \in Failures)
       => /\ allFeatures'[selectedFeature.index].Account_Update = saves[1].before
          /\ panelVisible'
          /\ selectedFeature' = selectedFeature]_vars

\* C2: an accepted answer to a save submitted for record A that arrives while
\* another record B is selected patches A's record with the submitted value
\* and leaves B's record, B's selected object and B's form as they were.
C2_StaleSaveTargetsSubmitted ==
    [][(/\ ev'.op = "saveResultAccepted"
        /\ selectedFeature # NoFeature
        /\ AttributesOf(selectedFeature).OBJECTID # ev'.OBJECTID)
       => LET a == FindIndex(allFeatures, ev'.OBJECTID)
              b == FindIndex(allFeatures, AttributesOf(selectedFeature).OBJECTID)
          IN  /\ allFeatures'[a].Account_Update = ev'.value
              /\ allFeatures'[b] = allFeatures[b]
              /\ selectedFeature' = selectedFeature
              /\ panelVisible' = panelVisible
              /\ formInput' = formInput]_vars

\* C6: an answer whose success flag is not true never changes the
\* collection, the renderer or the counters.
C6_AcceptedOnlyIfSuccess ==
    [][(ev'.op \in SaveResultOps /\ ev'.result # "success")
       => /\ allFeatures' = allFeatures
          /\ renderer' = renderer
          /\ stats' = stats
          /\ ev'.op = "saveResultRejected"]_vars

\* C7: record r is selected when the accepted answer to a save of value v on
\* r arrives: afterwards the collection's record with r's OBJECTID holds v,
\* and when v is not empty the renderer draws v with the updated color and
\* the updated counter counts the records with a non-blank value, r among
\* them.
C7_EditRoundTrip ==
    [][(/\ ev'.op = "saveResultAccepted"
        /\ selectedFeature # NoFeature
        /\ AttributesOf(selectedFeature).OBJECTID = ev'.OBJECTID)
       => LET k == FindIndex(allFeatures', ev'.OBJECTID)
              v == ev'.value
              counted == {i \in 1..Len(allFeatures') :
                             Trim(allFeatures'[i].Account_Update) # <<>>
                             /\ allFeatures'[i].Account_Update # Null}
          IN  /\ k # 0
              /\ allFeatures'[k].Account_Update = v
              /\ v # <<>> => /\ SymbolFor(renderer', v) = updated
                             /\ k \in counted
                             /\ stats'.updated = Cardinality(counted)]_vars

\* the only save so far, of "a" on record 1 of a collection that held no
\* "a", was accepted while record 1 was selected
C7_Witness ==
    /\ rev = "r2"
    /\ ev.op = "saveResultAccepted"
    /\ ev.result = "success"
    /\ ev.OBJECTID = 1
    /\ ev.value = <<"a">>
    /\ saveCount = 1
    /\ allFeatures[1].Account_Update = <<"a">>
    /\ allFeatures[2].Account_Update = <<" ">>
    /\ SymbolFor(renderer, <<"a">>) = updated
    /\ stats.updated = 1

\* C8: once the renderer has been rebuilt from the collection, every record
\* whose value is null or trims to "" is drawn with the needs-update color
\* and every other record with the updated color.
C8_Classification ==
    rendererUpdated =>
        \A k \in 1..Len(allFeatures) :
            LET v == allFeatures[k].Account_Update
            IN  SymbolFor(renderer, v) =
                    IF v = Null \/ Trim(v) = <<>> THEN needsUpdate ELSE updated

\* a load of all six sample values: null, "", " ", "  " and two texts
C8_Witness ==
    /\ pc = "ready"
    /\ rendererUpdated
    /\ rev = "r1"
    /\ Len(allFeatures) = 6
    /\ allFeatures[6].Account_Update = <<" ", " ">>
    /\ allFeatures[2].Account_Update = <<"a">>

\* C9: the renderer the Classifier built draws a value that is not among
\* its entries with the needs-update color; no blank value is drawn with the
\* updated color.
C9_FallbackNeedsUpdate ==
    rendererUpdated =>
        /\ renderer.defaultSymbol = needsUpdate
        /\ \A v \in {<<" ">>, <<" ", " ">>} : SymbolFor(renderer, v) # updated

\* C10: when a save of a non-blank value is accepted, the renderer in place
\* when the handler returns draws that value with the updated color.
C10_RendererRebuiltAfterSave ==
    [][(ev'.op = "saveResultAccepted" /\ IsUpdatedValue(ev'.value))
       => SymbolFor(renderer', ev'.value) = updated]_vars

SelectedAttributesAfter ==
    IF selectedFeature'.ref = "collection"
    THEN allFeatures'[selectedFeature'.index]
    ELSE selectedFeature'.attributes

\* C12: the map never holds more than one highlight, and a selection of
\* record B made while another record is selected leaves exactly one
\* highlight, B's, with B the selected record, the panel open and B's
\* Account_Update in the form.
C12_SelectionExclusive ==
    /\ [](Len(viewGraphics) <= 1)
    /\ [][(/\ ev'.op = "select"
           /\ selectedFeature # NoFeature
           /\ AttributesOf(selectedFeature).OBJECTID # ev'.OBJECTID)
          => /\ viewGraphics' = <<ev'.OBJECTID>>
             /\ highlightGraphic' = ev'.OBJECTID
             /\ selectedFeature' # NoFeature
             /\ SelectedAttributesAfter.OBJECTID = ev'.OBJECTID
             /\ panelVisible'
             /\ formInput' = OrEmpty(SelectedAttributesAfter.Account_Update)]_vars

\* record 2, whose value is "a", was selected on the map while record 1 was
\* selected with another text typed in its form
C12_Witness ==
    /\ ev.op = "select"
    /\ ev.OBJECTID = 2
    /\ saveCount = 1
    /\ Len(saves) = 1
    /\ saves[1].OBJECTID = 1
    /\ viewGraphics = <<2>>
    /\ formInput = <<"a">>

\* C13: closing the panel or the modal (cancel or close) leaves no highlight
\* on the map, no selected record and a hidden panel, and changes neither
\* the collection nor the store.
C13_CloseReturnsToIdle ==
    [][ev'.op = "close"
       => /\ viewGraphics' = <<>>
          /\ highlightGraphic' = 0
          /\ selectedFeature' = NoFeature
          /\ ~panelVisible'
          /\ allFeatures' = allFeatures
          /\ store' = store]_vars

\* the panel of app.js 742-805 was closed while a save was in flight
C13_Witness ==
    /\ ev.op = "close"
    /\ rev = "r2"
    /\ Len(saves) = 1
    /\ viewGraphics = <<>>
    /\ ~panelVisible

(***************************************************************************)
(* Claims about the Search Index.                                          *)
(***************************************************************************)
SearchOps == {"filter", "searchNoData"}

\* C14: no search runs with a trimmed query of fewer than 2 characters,
\* whether it was started by typing, by Enter or by the search button; an
\* input event with such a query leaves the result list hidden.
C14_MinimumQueryLength ==
    [][/\ ev'.op \in SearchOps => Len(ev'.query) >= 2
       /\ (ev'.op = "input" /\ Len(ev'.query) < 2) => searchResults'.hidden]_vars

\* C15: at most one filter is scheduled at any time, and it is the one the
\* variable searchTimeout names; every input event leaves scheduled at most
\* the filter it scheduled itself, with its own query, so what was scheduled
\* before is cancelled; no other step schedules a filter; and a filter that
\* runs from the timer runs the query of the timeout that was pending.
C15_Debounce ==
    /\ [](Cardinality(timers) <= 1 /\ \A t \in timers : t.id = searchTimeout)
    /\ [][/\ ev'.op = "input"
             => /\ timers' \subseteq {[id |-> searchTimeout', query |-> ev'.query]}
                /\ (timers' # {}) = (ev'.scheduled /\ Len(ev'.query) >= 2)
          /\ ev'.op # "input" => timers' \subseteq timers
          /\ (ev'.op \in SearchOps /\ ev'.from = "timer")
             => /\ timers = {[id |-> searchTimeout, query |-> ev'.query]}
                /\ timers' = {}]_vars

\* the second of two input events that scheduled a filter, before any search
\* has run
C15_Witness ==
    /\ rev = "r4"
    /\ ev.op = "input"
    /\ ev.scheduled
    /\ searchTimeout = 2
    /\ timers = {[id |-> 2, query |-> ev.query]}
    /\ searchResults.note = "empty"

\* the letter without its case
LowerOf(c) == CASE c = "A" -> "a" [] c = "B" -> "b" [] c = "C" -> "c" [] OTHER -> c

\* the field is present and holds the query somewhere, ignoring case
HoldsIgnoringCase(field, query) ==
    /\ field # Null
    /\ \E i \in 0..(Len(field) - Len(query)) :
          \A j \in 1..Len(query) : LowerOf(field[i + j]) = LowerOf(query[j])

\* the OBJECTIDs of the records of fs whose address or account holds the
\* query, in the order of fs
MatchingIds(fs, query) ==
    LET hit(f) == HoldsIgnoringCase(f.Address, query)
                  \/ HoldsIgnoringCase(f.Account, query)
        all == SelectSeq(fs, hit)
    IN  [k \in 1..Len(all) |-> all[k].OBJECTID]

\* the records a search looks through
Searched == IF rev = "r4" THEN store ELSE allFeatures

\* C16: the result list of a search is the first min(10, m) of the m
\* matching records, in collection order.
C16_FirstTenInOrder ==
    [][ev'.op = "filter"
       => LET m == MatchingIds(Searched, ev'.query)
          IN  searchResults'.items = SubSeq(m, 1, Min(10, Len(m)))]_vars

\* C17: the records a search lists are matches, a record is a match exactly
\* when its address or its account is present and holds the query ignoring
\* case; the list is the matches in order up to the point where it is cut
\* (never before the eighth), and "No meters found" is shown exactly when no
\* record matches.
C17_MatchRule ==
    [][ev'.op = "filter"
       => LET m == MatchingIds(Searched, ev'.query)
              shown == searchResults'.items
          IN  /\ Len(shown) <= Len(m)
              /\ shown = SubSeq(m, 1, Len(shown))
              /\ Len(m) <= 8 => shown = m
              /\ (searchResults'.note = "none") = (m = <<>>)
              /\ (searchResults'.note = "list") = (m # <<>>)
              /\ ~searchResults'.hidden]_vars

\* "AB" was searched in a collection whose first two records hold "ab" in
\* another letter case and whose third record has neither address nor account
C17_Witness ==
    /\ rev = "r2"
    /\ ev.op = "filter"
    /\ ev.query = <<"A", "B">>
    /\ Len(allFeatures) = 3
    /\ allFeatures[3].Address = Null
    /\ allFeatures[3].Account = Null
    /\ searchResults.items = <<1, 2>>

C19_NoReadBeforeLoad ==
    [][(/\ ev'.op \in SaveResultOps
        /\ Accepted(rev, ev'.result)
        /\ selectedFeature # NoFeature)
       => allFeaturesDefined]_vars

\* C20: a request to applyEdits is for one record, the selected one; a step
\* issues at most one request and only a click on the save button issues one;
\* an answer, whatever it is, ends its request and issues none.
C20_NoBatchNoRetry ==
    [][/\ saveCount' \in {saveCount, saveCount + 1}
       /\ Len(saves') <= Len(saves) + 1
       /\ (saveCount' = saveCount + 1) = (Len(saves') = Len(saves) + 1)
       /\ Len(saves') = Len(saves) + 1
          => /\ ev'.op = "save"
             /\ selectedFeature # NoFeature
             /\ SubSeq(saves', 1, Len(saves)) = saves
             /\ saves'[Len(saves')].OBJECTID = AttributesOf(selectedFeature).OBJECTID
             /\ ev'.OBJECTID = saves'[Len(saves')].OBJECTID
       /\ ev'.op \in SaveResultOps
          => /\ Len(saves') = Len(saves) - 1
             /\ saveCount' = saveCount]_vars

\* the only request so far was answered with a failure and none is in flight
C20_Witness ==
    /\ ev.op = "saveResultRejected"
    /\ ev.result = "failed"
    /\ saveCount = 1
    /\ saves = <<>>

InitFailures == {"initMapFailed", "loadFailed"}

\* C21: whenever initMap or a page request of loadAllFeatures fails, init()
\* ends in its catch block: the loading indicator is hidden, exactly one
\* toast is shown and it is an error toast, and nothing of the rest of
\* init() has run.
C21_InitFailureHandled ==
    [][ev'.op \in InitFailures
       => /\ pc' = "failed"
          /\ ~loadingShown'
          /\ ev'.toasts = <<"error">>
          /\ ~searchReady' /\ ~listenersReady'
          /\ stats' = NoStats]_vars

\* loadAllFeatures failed on a later page, after a first page had arrived
C21_Witness ==
    /\ ev.op = "loadFailed"
    /\ Len(requests) >= 2
    /\ Len(features) >= 1
    /\ pc = "failed"

\* C22: a rejected query of searchFeatures shows the "search unavailable"
\* message in the result list, ends with the loading indicator hidden and
\* leaves the selected record, the highlight, the graphics on the map and
\* the modal as they were.
C22_SearchFailureRecovered ==
    [][ev'.op = "searchFailed"
       => /\ searchResults'.note = "unavailable"
          /\ ~searchResults'.hidden
          /\ ~loadingShown'
          /\ selectedFeature' = selectedFeature
          /\ highlightGraphic' = highlightGraphic
          /\ viewGraphics' = viewGraphics
          /\ panelVisible' = panelVisible
          /\ formInput' = formInput]_vars

\* a search failed while a record was selected in the open modal
C22_Witness ==
    /\ ev.op = "searchFailed"
    /\ selectedFeature # NoFeature
    /\ panelVisible
    /\ highlightGraphic # 0
    /\ searchResults.note = "unavailable"

\* C23: in the revision that disables the save button while it saves, at most
\* one applyEdits request is in flight at any time.
C23_OneRequestInFlight == rev = "r3" => Len(saves) <= 1

\* every record of the collection holds the store's Account_Update
Agree(fs, st) ==
    \A i \in 1..Len(fs) :
        \E j \in 1..Len(st) :
            /\ st[j].OBJECTID = fs[i].OBJECTID
            /\ st[j].Account_Update = fs[i].Account_Update

\* C24: when the collection agrees with the store, and the store's answer
\* {success: true} to the last request in flight is processed, the collection
\* agrees with the store again, whatever was selected or closed meanwhile.
C24_AgreementAtQuiescence ==
    [][(/\ ev'.op \in SaveResultOps
        /\ ev'.result = "success"
        /\ saves' = <<>>
        /\ Agree(allFeatures, store))
       => Agree(allFeatures', store')]_vars

\* C25: when the accepted answer to a save of record A is processed while
\* another record B is selected, B stays selected, B's highlight stays on
\* the map and B's panel or modal stays open.
C25_StaleResultKeepsSelection ==
    [][(/\ ev'.op = "saveResultAccepted"
        /\ selectedFeature # NoFeature
        /\ AttributesOf(selectedFeature).OBJECTID # ev'.OBJECTID)
       => /\ selectedFeature' # NoFeature
          /\ panelVisible'
          /\ highlightGraphic' = highlightGraphic
          /\ viewGraphics' = viewGraphics]_vars

\* C26: in every reachable state a highlight graphic is on the map exactly
\* when a record is selected, and the panel or modal is open exactly then.
C26_HighlightIffSelected ==
    /\ (highlightGraphic # 0) = (selectedFeature # NoFeature)
    /\ (viewGraphics # <<>>) = (selectedFeature # NoFeature)
    /\ panelVisible = (selectedFeature # NoFeature)

SelectsInFlight(qs) == {k \in 1..Len(qs) : qs[k].kind = "select"}

\* C27: when the record chosen last is the selected one and the response to
\* an earlier choice arrives as the last one outstanding, the selected
\* record, the highlight and the modal's contents stay those of the record
\* chosen last.
C27_LastChoiceWins ==
    [][(/\ ev'.op = "selected"
        /\ SelectsInFlight(queries') = {}
        /\ selectedFeature # NoFeature
        /\ selectedFeature.attributes.OBJECTID = latest.select
        /\ highlightGraphic = latest.select)
       => /\ selectedFeature'.attributes.OBJECTID = latest.select
          /\ highlightGraphic' = latest.select
          /\ formInput' = OrEmpty(store[latest.select].Account_Update)]_vars

\* C28: after the clear-search control was clicked the result list stays
\* empty and hidden until the next input event: the step that follows a
\* clear, unless it is an input event, leaves the list hidden and empty.
C28_ClearCancelsPending ==
    [][(ev.op = "clearSearch" /\ ev'.op # "input")
       => /\ searchResults'.hidden
          /\ searchResults'.items = <<>>]_vars

SearchesInFlight(qs) == {k \in 1..Len(qs) : qs[k].kind = "search"}

\* C29: when the list shows the results of the query issued last and the
\* response to an earlier search arrives as the last one outstanding, the
\* list still shows the results of the query issued last.
C29_ResultsOfLatestQuery ==
    [][(/\ ev'.op = "filter"
        /\ SearchesInFlight(queries') = {}
        /\ ~searchResults.hidden
        /\ searchResults.note \in {"list", "none"}
        /\ searchResults.items = MatchingIds(store, latest.search))
       => searchResults'.items = MatchingIds(store, latest.search)]_vars

\* the records of the two collections that differ in Account_Update
Differing(fs, gs) == {i \in 1..Len(fs) : fs[i].Account_Update # gs[i].Account_Update}

\* C30: processing the answer to a save changes the Account_Update of at
\* most one record of the collection and nothing else in it: the length, the
\* order and every OBJECTID stay; an answer that is not accepted, and every
\* other step, leaves the collection as it is.
C30_AcceptedEditFrame ==
    [][/\ Len(allFeatures') = Len(allFeatures)
       /\ \A i \in 1..Len(allFeatures) :
             allFeatures'[i].OBJECTID = allFeatures[i].OBJECTID
       /\ Cardinality(Differing(allFeatures, allFeatures')) <= 1
       /\ allFeatures' # allFeatures
          => /\ ev'.op = "saveResultAccepted"
             /\ \A i \in Differing(allFeatures, allFeatures') :
                   allFeatures'[i].Account_Update = ev'.value
       /\ ev'.op \in {"saveResultRejected", "saveResultThrew"}
          => allFeatures' = allFeatures]_vars

\* an accepted answer changed record 2 of the collection to "a" and left
\* record 1, and the panel of app.js 873-1385 stayed open
C30_Witness ==
    /\ rev = "r3"
    /\ ev.op = "saveResultAccepted"
    /\ ev.OBJECTID = 2
    /\ ev.value = <<"a">>
    /\ allFeatures[2].Account_Update = <<"a">>
    /\ allFeatures[1].Account_Update # <<"a">>
    /\ Len(allFeatures) = NumFeatures

====
